---- MODULE Spec2Model ----
(***************************************************************************)
(* Obsidian notes -> Anki synchronisation plugin.                          *)
(*                                                                         *)
(* The plugin talks to AnkiConnect through ankiRequest(action, params).    *)
(* Every asynchronous operation is modelled as a flow: an action resumes   *)
(* the flow with the response of its pending request, runs the handler up  *)
(* to the next request (or to its return) and records the request issued.  *)
(* A request either fails (HTTP error / error payload: ankiRequest throws) *)
(* or is applied by the remote store.                                      *)
(*                                                                         *)
(* The source tree holds several revisions of the same files; a revision   *)
(* is named after the file that holds it:                                  *)
(*   "p2a"  src/unnamed/part_002 lines 1-230   (with src/unnamed/part_003) *)
(*   "p2b"  src/unnamed/part_002 lines 231-447                             *)
(*   "main" src/src/main.ts                                                *)
(***************************************************************************)
EXTENDS Integers, Sequences, FiniteSets, TLC

VARIABLES settings, vault, decks, models, records, flow, done, ops, probe,
          tagInput

vars == <<settings, vault, decks, models, records, flow, done, ops, probe,
          tagInput>>

(***************************************************************************)
(* Bounds                                                                  *)
(***************************************************************************)
\* most operations called in one behaviour
MaxOps == 2
\* longest field list a remote note type starts with
MaxFields == 3
\* longest tag list drawn for the tag filter
MaxTags == 2
\* most lines of a note text drawn for the callout extractor
MaxLines == 3

(***************************************************************************)
(* JavaScript values                                                       *)
(***************************************************************************)
\* the value of a missing key
UNDEF == "undefined"
\* the value of a key written without a value
NULL == "null"

\* !v of a string-or-missing value
Falsy(v) == v \in {UNDEF, NULL, ""}

\* String.prototype.trim on the strings of the model
Trim(s) ==
    CASE s \in {" ", "  "} -> ""
      [] s = " a " -> "a"
      [] OTHER -> s

\* String.prototype.toLowerCase on the tags of the model
ToLowerCase(s) ==
    CASE s = "A" -> "a"
      [] s = "B" -> "b"
      [] OTHER -> s

\* tags.map(t => t.toLowerCase())
MapToLowerCase(tags) == [i \in 1..Len(tags) |-> ToLowerCase(tags[i])]

Includes(s, x) == \E i \in 1..Len(s) : s[i] = x

Range(s) == {s[i] : i \in 1..Len(s)}

NoDup(s) == \A i, j \in 1..Len(s) : s[i] = s[j] => i = j

\* sequences over S of length at most n
SeqsUpTo(S, n) == UNION {[1..k -> S] : k \in 0..n}

\* sequences over S without repetition, of length at most n
InjSeqs(S, n) == {s \in SeqsUpTo(S, n) : NoDup(s)}

(***************************************************************************)
(* Frontmatter values and the projection of a property                     *)
(***************************************************************************)
\* a frontmatter value: a missing key, a string, a number, a boolean or a
\* list of strings
FmAbsent == [kind |-> "absent", str |-> "", num |-> 0, bool |-> FALSE, items |-> <<>>]

FmString(s) == [FmAbsent EXCEPT !.kind = "string", !.str = s]

FmNumber(n) == [FmAbsent EXCEPT !.kind = "number", !.num = n]

FmBoolean(b) == [FmAbsent EXCEPT !.kind = "boolean", !.bool = b]

FmArray(items) == [FmAbsent EXCEPT !.kind = "array", !.items = items]

\* "if (frontmatter[propertyName])"
Truthy(v) ==
    CASE v.kind = "string" -> v.str # ""
      [] v.kind = "number" -> v.num # 0
      [] v.kind = "boolean" -> v.bool
      [] v.kind = "array" -> TRUE
      [] OTHER -> FALSE

\* Array.prototype.join on strings
RECURSIVE Join(_, _)
Join(items, sep) ==
    IF Len(items) = 0 THEN ""
    ELSE IF Len(items) = 1 THEN items[1]
    ELSE items[1] \o sep \o Join(Tail(items), sep)

\* String(value) of a scalar
StringOf(v) ==
    CASE v.kind = "string" -> v.str
      [] v.kind = "number" -> ToString(v.num)
      [] v.kind = "boolean" -> (IF v.bool THEN "true" ELSE "false")
      [] OTHER -> "undefined"

\* the value a property contributes to ankiFields
ProjectProperty(v) ==
    IF Truthy(v)
    THEN (IF v.kind = "array" THEN Join(v.items, ", ") ELSE StringOf(v))
    ELSE ""

(***************************************************************************)
(* Note text and the callout extractor                                     *)
(*   a text is a sequence of lines and whether the last line is followed   *)
(*   by a line break                                                       *)
(***************************************************************************)
Text(lines, finalNewline) == [lines |-> lines, finalNewline |-> finalNewline]

\* the label, lowercased, of a line that matches "^> \[!label\][^\r\n]*"
OpenerLabel(line) ==
    CASE line = "> [!summary]" -> "summary"
      [] line = "> [!SUMMARY] Key points" -> "summary"
      [] line = "> [!note]" -> "note"
      [] OTHER -> NULL

\* the label of the setting, lowercased (the regular expression has flag i)
LabelLower(label) ==
    CASE label = "Summary" -> "summary"
      [] label = "SUMMARY" -> "summary"
      [] OTHER -> label

\* a line that matches ">.*"
IsQuoted(line) ==
    line \in {"> [!summary]", "> [!SUMMARY] Key points", "> [!note]",
              "> x", ">y", ">"}

\* line.replace(/^>\s?/, '')
StripMarker(line) ==
    CASE line = "> x" -> "x"
      [] line = ">y" -> "y"
      [] line = ">" -> ""
      [] line = "> [!summary]" -> "[!summary]"
      [] line = "> [!SUMMARY] Key points" -> "[!SUMMARY] Key points"
      [] line = "> [!note]" -> "[!note]"
      [] OTHER -> line

\* a line is followed by a line break
HasBreak(content, i) == i < Len(content.lines) \/ content.finalNewline

\* content.match(calloutRegex): the index of the first opener line of the
\* label that is followed by a line break, 0 when there is no match
MatchIndex(content, label) ==
    LET hits == {i \in 1..Len(content.lines) :
                    /\ OpenerLabel(content.lines[i]) = LabelLower(label)
                    /\ HasBreak(content, i)}
    IN IF hits = {} THEN 0 ELSE CHOOSE i \in hits : \A j \in hits : i <= j

\* the index of the last line of the group ((?:>.*\r?\n?)*) after line i:
\* the quoted lines that follow, a line without a line break ends the group
RECURSIVE GroupEnd(_, _)
GroupEnd(content, i) ==
    IF i < Len(content.lines) /\ IsQuoted(content.lines[i + 1])
    THEN GroupEnd(content, i + 1)
    ELSE i

\* match[1].split(/\r?\n/): the lines of the group, and an empty string
\* after the last line break
GroupLines(content, i) ==
    LET j == GroupEnd(content, i)
    IN IF j = i THEN <<>>
       ELSE SubSeq(content.lines, i + 1, j)
                \o (IF HasBreak(content, j) THEN <<"">> ELSE <<>>)

\* String.prototype.trim on lines joined with "\n" (no line of the model
\* starts or ends with white space): the empty lines at both ends go
RECURSIVE TrimLines(_)
TrimLines(lines) ==
    IF Len(lines) = 0 THEN lines
    ELSE IF lines[1] = "" THEN TrimLines(Tail(lines))
    ELSE IF lines[Len(lines)] = "" THEN TrimLines(SubSeq(lines, 1, Len(lines) - 1))
    ELSE lines

StripAll(lines) == [k \in 1..Len(lines) |-> StripMarker(lines[k])]

\* extractSummaryCallout: NULL, or the text of the callout
extractSummaryCallout(content, label) ==
    LET i == MatchIndex(content, label)
    IN IF i # 0 /\ Len(GroupLines(content, i)) > 0
       THEN Join(TrimLines(StripAll(GroupLines(content, i))), "\n")
       ELSE NULL

\* tempDiv.innerHTML: the rendered group, or the still empty container when
\* the render, which is not awaited, has not filled it yet
InnerHTML(lines, rendered) ==
    IF rendered
    THEN "<blockquote>" \o Join(TrimLines(StripAll(lines)), "\n") \o "</blockquote>"
    ELSE ""

\* extractCallout: NULL, or the HTML of the callout
extractCallout(content, label, rendered) ==
    LET i == MatchIndex(content, label)
    IN IF i # 0 /\ Len(GroupLines(content, i)) > 0
       THEN InnerHTML(GroupLines(content, i), rendered)
       ELSE NULL

(***************************************************************************)
(* Remote store (AnkiConnect)                                              *)
(*   decks    set of deck names                                            *)
(*   models   note type name -> ordered field list                         *)
(*   records  set of notes [id, deckName, modelName, fields]               *)
(***************************************************************************)
\* a field map: field name -> value, UNDEF for a field that is not set
FieldNameUniverse ==
    {"citation key", "GUID", "summary", "title", "authors", "Title", "Authors",
     "extra"}

NoFields == [n \in FieldNameUniverse |-> UNDEF]

NextNoteId == IF records = {} THEN 1
              ELSE 1 + (CHOOSE i \in {r.id : r \in records} :
                           \A r \in records : r.id <= i)

\* ascending sequence of the elements of a finite set of integers
RECURSIVE SortedIds(_)
SortedIds(S) ==
    IF S = {} THEN <<>>
    ELSE LET m == CHOOSE x \in S : \A y \in S : x <= y
         IN <<m>> \o SortedIds(S \ {m})

\* findNotes: ids of the notes of the deck whose field holds the value
RemoteFindNotes(deckName, fieldName, value) ==
    SortedIds({r.id : r \in {q \in records :
        /\ q.deckName = deckName
        /\ fieldName \in FieldNameUniverse
        /\ q.fields[fieldName] = value}})

\* updateNoteFields: sets the supplied fields, leaves the others
RemoteUpdateNoteFields(id, fields) ==
    {IF r.id = id
       THEN [r EXCEPT !.fields = [n \in FieldNameUniverse |->
                IF fields[n] # UNDEF THEN fields[n] ELSE r.fields[n]]]
       ELSE r : r \in records}

\* addNote: a new note with the next free id
RemoteAddNote(deckName, modelName, fields, tags) ==
    records \cup {[id |-> NextNoteId, deckName |-> deckName,
                   modelName |-> modelName, fields |-> fields, tags |-> tags]}

\* mutant: the names sent are added to the list the note type holds
RemoteSetModelFields_Append(modelName, fieldNames) ==
    [n \in DOMAIN models \cup {modelName} |->
        IF n # modelName THEN models[n]
        ELSE IF n \in DOMAIN models
             THEN models[n] \o SelectSeq(fieldNames,
                                  LAMBDA x : ~Includes(models[n], x))
             ELSE fieldNames]

\* createModel / updateModelFields: the note type holds the list sent
RemoteSetModelFields(modelName, fieldNames) ==
    [n \in DOMAIN models \cup {modelName} |->
        IF n = modelName THEN fieldNames ELSE models[n]]

(***************************************************************************)
(* Flows: one record per running asynchronous operation                    *)
(***************************************************************************)
\* two asynchronous operations can be in progress at once
FlowIds == {"f1", "f2"}

\* the flow of the operations that are called one after another
Sequential == {"f1"}

Files == {"n1", "n2", "n3"}

Variants == {"p2a", "p2b", "main"}

\* the params of a createModel request; none was sent
NoCreateParams ==
    [inOrderFields |-> <<>>, templates |-> 0, Front |-> "", Back |-> "",
     isCloze |-> FALSE]

IdleFlow ==
    [op |-> "idle", variant |-> "-", pc |-> "idle",
     modelName |-> "", fieldNames |-> <<>>, ankiGuidField |-> "",
     deckName |-> "", createIfNotFound |-> FALSE,
     file |-> "-", guid |-> "", idField |-> "", ankiFields |-> NoFields,
     found |-> <<>>, ankiNoteId |-> 0, queryDeck |-> "", syncOutcome |-> "-",
     filesToSync |-> <<>>, idx |-> 0,
     createCounter |-> 0, updateCounter |-> 0, failCounter |-> 0,
     syncCounter |-> 0,
     calls |-> <<>>, failures |-> <<>>, skipped |-> <<>>,
     ensureAction |-> "-", deckAction |-> "-",
     allowCreate |-> TRUE, createParams |-> NoCreateParams,
     result |-> "-", thrown |-> "-",
     beforeModels |-> <<>>, beforeDecks |-> {},
     events |-> <<>>, startSettings |-> <<>>]

NewFlow(op, variant) ==
    [IdleFlow EXCEPT !.op = op, !.variant = variant,
        !.beforeModels = models, !.beforeDecks = decks,
        !.startSettings = settings]

InBulk(fl) == fl.op \in {"syncNotesByTags", "cmdSyncNotesByTag"}

InCommand(fl) == fl.op \in {"cmdSyncCurrentNote", "cmdSyncNotesByTag"}

\* ankiRequest is called: the request is pending, the flow suspended
\* an entry of the request log of a flow: the request of a note was sent,
\* answered, or it failed
Event(fl, action, kind) == [file |-> fl.file, action |-> action, kind |-> kind]

Issue(fl, action) ==
    [fl EXCEPT !.calls = Append(@, action), !.pc = action,
               !.events = Append(@, Event(fl, action, "sent"))]

\* ankiRequest threw on the pending request
Failed(fl) ==
    [fl EXCEPT !.failures = Append(@, fl.pc),
               !.events = Append(@, Event(fl, fl.pc, "failed"))]

\* ankiRequest returned the result of the pending request
Answered(fl) == [fl EXCEPT !.events = Append(@, Event(fl, fl.pc, "answered"))]

\* the top-level operation returns
Return(fl, result) == [fl EXCEPT !.pc = "done", !.result = result]

\* the top-level operation rejects
Throw(fl, error) == [fl EXCEPT !.pc = "done", !.thrown = error]

(***************************************************************************)
(* syncNoteToAnki                                                          *)
(***************************************************************************)
\* the name of the Anki field that holds the identity
IdentityField(variant) ==
    IF variant = "p2a" THEN settings.obsidianGuidProperty
    ELSE settings.ankiGuidField

\* the deck of the findNotes query and of addNote
DeckSetting(variant) ==
    IF variant = "main" THEN settings.defaultDeck ELSE settings.ankiDeckName

\* "if (!guid) throw new ReferenceError": only revision p2a has the check
GuidCheckThrows_main(guid) == FALSE

GuidCheckThrows_p2b(guid) == FALSE

GuidCheckThrows_p2a(guid) == Falsy(guid)

GuidCheckThrows(variant, guid) ==
    CASE variant = "p2a" -> GuidCheckThrows_p2a(guid)
      [] variant = "p2b" -> GuidCheckThrows_p2b(guid)
      [] OTHER -> GuidCheckThrows_main(guid)

\* the catch of syncNoteToAnki: p2a rethrows ReferenceError, every
\* revision swallows (logs) all other errors and returns undefined
SyncCatchRethrows(variant, error) == variant = "p2a" /\ error = "ReferenceError"

\* value returned after addNote / updateNoteFields succeeded
SyncResult(variant, created) ==
    IF variant = "p2a" THEN (IF created THEN "true" ELSE "false")
    ELSE "undefined"

\* frontmatter[name]
Frontmatter(note, name) ==
    IF name \in DOMAIN note.props THEN note.props[name]
    ELSE IF name = settings.obsidianGuidProperty /\ ~Falsy(note.guid)
         THEN FmString(note.guid)
         ELSE FmAbsent

\* "ankiFields[callout] = extractedCallout || ''"
CalloutField(note, callout) ==
    LET extractedCallout == extractCallout(note.content, callout, note.rendered)
    IN IF Falsy(extractedCallout) THEN "" ELSE extractedCallout

\* the index of the last entry of fieldMappings that writes the field, or 0
LastMapping(name) ==
    LET hits == {i \in 1..Len(settings.fieldMappings) :
                    settings.fieldMappings[i].ankiField = name}
    IN IF hits = {} THEN 0 ELSE CHOOSE i \in hits : \A j \in hits : j <= i

\* ankiFields of revision p2a: the identity entry, then the callouts,
\* then the properties; a later assignment to a name replaces an earlier
AnkiFields_p2a(note) ==
    [name \in FieldNameUniverse |->
        IF Includes(settings.propertyNames, name)
        THEN ProjectProperty(Frontmatter(note, name))
        ELSE IF Includes(settings.callouts, name)
        THEN CalloutField(note, name)
        ELSE IF name = settings.obsidianGuidProperty THEN note.guid
        ELSE UNDEF]

\* ankiFields of revisions p2b and main: the identity entry, then the
\* callouts, then the entries of fieldMappings
AnkiFields_mapped(note) ==
    [name \in FieldNameUniverse |->
        IF LastMapping(name) # 0
        THEN ProjectProperty(Frontmatter(note,
                 settings.fieldMappings[LastMapping(name)].obsProp))
        ELSE IF Includes(settings.callouts, name)
        THEN CalloutField(note, name)
        ELSE IF name = settings.ankiGuidField THEN note.guid
        ELSE UNDEF]

AnkiFields(variant, note) ==
    IF variant = "p2a" THEN AnkiFields_p2a(note) ELSE AnkiFields_mapped(note)

\* "tags: frontmatter.tags || []" of addNote
NoteTags(note) ==
    IF note.fmTags.kind = "undefined" THEN [kind |-> "array", items |-> <<>>]
    ELSE note.fmTags

\* syncNoteToAnki up to its first request: findNotes is pending, or the
\* call has ended (pc "syncEnd") with syncOutcome the value returned
\* ("true", "false", "undefined") or the error thrown ("ReferenceError")
SyncPrepare(fl, file) ==
    LET guid == vault[file].guid
        f1 == [fl EXCEPT !.file = file, !.guid = guid,
                  !.idField = IdentityField(fl.variant),
                  !.found = <<>>, !.ankiNoteId = 0, !.syncOutcome = "-"]
    IN IF GuidCheckThrows(fl.variant, guid)
       THEN [f1 EXCEPT !.pc = "syncEnd",
                !.syncOutcome =
                    IF SyncCatchRethrows(fl.variant, "ReferenceError")
                    THEN "ReferenceError" ELSE "undefined"]
       ELSE Issue([f1 EXCEPT !.ankiFields = AnkiFields(fl.variant, vault[file]),
                       !.queryDeck = DeckSetting(fl.variant)], "findNotes")

\* a request of syncNoteToAnki failed: the catch logs and the call
\* returns undefined (the error is an Error, never a ReferenceError)
SyncCaught(fl) ==
    [Failed(fl) EXCEPT !.pc = "syncEnd",
        !.syncOutcome = IF SyncCatchRethrows(fl.variant, "Error")
                        THEN "Error" ELSE "undefined"]

\* mutant: the last id found is taken
FirstFound_Last(findNotesResult) ==
    IF Len(findNotesResult) > 0 THEN findNotesResult[Len(findNotesResult)] ELSE 0

\* findNotes answered: "ankiNoteId = findNotesResult[0]" or null (0)
FirstFound(findNotesResult) ==
    IF Len(findNotesResult) > 0 THEN findNotesResult[1] ELSE 0

\* mutant: a note is added whatever findNotes returned
SyncOnFound_AlwaysAdd(fl, findNotesResult) ==
    Issue([fl EXCEPT !.found = findNotesResult,
               !.queryDeck = DeckSetting(fl.variant),
               !.modelName = settings.noteTypeName], "addNote")

SyncOnFound(fl, findNotesResult) ==
    LET ankiNoteId == FirstFound(findNotesResult)
        f1 == [fl EXCEPT !.found = findNotesResult, !.ankiNoteId = ankiNoteId]
    IN IF ankiNoteId # 0
       THEN Issue(f1, "updateNoteFields")
       ELSE Issue([f1 EXCEPT !.queryDeck = DeckSetting(fl.variant),
                       !.modelName = settings.noteTypeName], "addNote")

\* addNote (created = TRUE) or updateNoteFields answered
SyncOnWritten(fl, created) ==
    [fl EXCEPT !.pc = "syncEnd", !.syncOutcome = SyncResult(fl.variant, created)]

(***************************************************************************)
(* Tag filter of the bulk sync                                             *)
(***************************************************************************)
\* String.prototype.substring(1) on an inline tag "#tag"
Substring1(s) ==
    CASE s = "#a" -> "a"
      [] s = "#A" -> "A"
      [] s = "#b" -> "b"
      [] s = "#B" -> "B"
      [] OTHER -> s

\* getTagsFromFile: [threw, tags]; "(frontmatter.tags as string[])?.map"
\* is a TypeError when the tags value is a string and not an array
getTagsFromFile(note) ==
    LET noteTags == [i \in 1..Len(note.inlineTags) |->
                        ToLowerCase(Substring1(note.inlineTags[i]))]
    IN CASE note.fmTags.kind = "undefined" ->
              [threw |-> FALSE, tags |-> noteTags]
         [] note.fmTags.kind = "array" ->
              [threw |-> FALSE,
               tags |-> noteTags \o MapToLowerCase(note.fmTags.items)]
         [] OTHER -> [threw |-> TRUE, tags |-> <<>>]

\* the getters includeTags / excludeTags
includeTags == MapToLowerCase(settings.tagsToInclude)

excludeTags == MapToLowerCase(settings.tagsToExclude)

Some(tags, list) == \E i \in 1..Len(tags) : Includes(list, tags[i])

\* the filter loop body of syncNotesByTags: TRUE iff the file is pushed
ShouldSync_p2a(fileTags, inc, exc) ==
    IF Len(fileTags) = 0 /\ Len(inc) > 0 THEN FALSE
    ELSE IF Len(exc) > 0 /\ Some(fileTags, exc) THEN FALSE
    ELSE Len(inc) = 0 \/ Some(fileTags, inc)

ShouldSync_p2b(fileTags, inc, exc) ==
    IF Len(fileTags) = 0 /\ Len(inc) > 0 THEN FALSE
    ELSE IF Len(exc) > 0 /\ Some(fileTags, exc) THEN FALSE
    ELSE Len(inc) = 0 \/ Some(fileTags, inc)

\* the filter loop body of the sync-notes-by-tag callback of main.ts
ShouldSync_main(allTags, inc, exc) ==
    IF Len(allTags) = 0 /\ (Len(inc) > 0 \/ Len(exc) > 0) THEN FALSE
    ELSE LET isExcluded == IF Len(exc) > 0 THEN Some(allTags, exc) ELSE FALSE
         IN IF isExcluded THEN FALSE
            ELSE IF Len(inc) = 0 THEN TRUE ELSE Some(allTags, inc)

ShouldSync(variant, fileTags, inc, exc) ==
    CASE variant = "p2a" -> ShouldSync_p2a(fileTags, inc, exc)
      [] variant = "p2b" -> ShouldSync_p2b(fileTags, inc, exc)
      [] OTHER -> ShouldSync_main(fileTags, inc, exc)

\* vault.getMarkdownFiles()
AllMarkdownFiles == <<"n1", "n2", "n3">>

\* the filter loop: [threw, filesToSync]
FilterFiles(variant) ==
    IF \E i \in 1..Len(AllMarkdownFiles) :
           getTagsFromFile(vault[AllMarkdownFiles[i]]).threw
    THEN [threw |-> TRUE, filesToSync |-> <<>>]
    ELSE [threw |-> FALSE,
          filesToSync |-> SelectSeq(AllMarkdownFiles,
              LAMBDA file : ShouldSync(variant,
                  getTagsFromFile(vault[file]).tags, includeTags, excludeTags))]

(***************************************************************************)
(* syncNotesByTags: the sync loop                                          *)
(***************************************************************************)
Returned == {"true", "false", "undefined"}

\* the counters after one syncNoteToAnki call of the loop has ended
BulkCount_p2a(fl) ==
    IF fl.syncOutcome \in Returned
    THEN IF fl.syncOutcome = "true"
         THEN [fl EXCEPT !.createCounter = @ + 1]
         ELSE [fl EXCEPT !.updateCounter = @ + 1]
    ELSE IF fl.syncOutcome # "ReferenceError"
         THEN [fl EXCEPT !.failCounter = @ + 1]
         ELSE [fl EXCEPT !.skipped = Append(@, fl.file)]

BulkCount_p2b(fl) ==
    IF fl.syncOutcome \in Returned
    THEN [fl EXCEPT !.syncCounter = @ + 1]
    ELSE [fl EXCEPT !.failCounter = @ + 1]

BulkCount_main(fl) ==
    IF fl.syncOutcome \in Returned
    THEN [fl EXCEPT !.syncCounter = @ + 1]
    ELSE fl

BulkCount(fl) ==
    CASE fl.variant = "p2a" -> BulkCount_p2a(fl)
      [] fl.variant = "p2b" -> BulkCount_p2b(fl)
      [] OTHER -> BulkCount_main(fl)

\* mutant: the sync of the next note is started while the request of the
\* current note is pending
RECURSIVE BulkLoop_NoAwait(_)
BulkLoop_NoAwait(fl) ==
    IF fl.idx > Len(fl.filesToSync)
    THEN Return(fl, "logged")
    ELSE LET f1 == SyncPrepare(fl, fl.filesToSync[fl.idx])
         IN IF f1.pc = "syncEnd"
            THEN BulkLoop_NoAwait([BulkCount(f1) EXCEPT !.idx = @ + 1])
            ELSE IF fl.idx < Len(fl.filesToSync)
                 THEN [f1 EXCEPT !.events = Append(@,
                          [file |-> fl.filesToSync[fl.idx + 1],
                           action |-> "findNotes", kind |-> "sent"])]
                 ELSE f1

\* the loop from filesToSync[idx] on, up to the next request or the end
RECURSIVE BulkLoop(_)
BulkLoop(fl) ==
    IF fl.idx > Len(fl.filesToSync)
    THEN Return(fl, "logged")
    ELSE LET f1 == SyncPrepare(fl, fl.filesToSync[fl.idx])
         IN IF f1.pc = "syncEnd"
            THEN BulkLoop([BulkCount(f1) EXCEPT !.idx = @ + 1])
            ELSE f1

\* syncNotesByTags from its call to its first request
BulkEnter(fl) ==
    LET filtered == FilterFiles(fl.variant)
    IN IF filtered.threw
       THEN IF InCommand(fl) THEN Return(fl, "caught")
            ELSE Throw(fl, "TypeError")
       ELSE IF Len(filtered.filesToSync) = 0
            THEN Return(fl, "none")
            ELSE BulkLoop([fl EXCEPT !.filesToSync = filtered.filesToSync,
                              !.idx = 1])

\* a syncNoteToAnki call has ended: back in its caller
SyncReturn(fl) ==
    IF InBulk(fl)
    THEN BulkLoop([BulkCount(fl) EXCEPT !.idx = @ + 1])
    ELSE IF fl.syncOutcome \in Returned
         THEN Return(fl, fl.syncOutcome)
         ELSE IF InCommand(fl) THEN Return(fl, "caught")
              ELSE Throw(fl, fl.syncOutcome)

\* syncNoteToAnki is called outside the loop
SyncEnter(fl, file) ==
    LET f1 == SyncPrepare(fl, file)
    IN IF f1.pc = "syncEnd" THEN SyncReturn(f1) ELSE f1

(***************************************************************************)
(* findAnkiDeck                                                            *)
(***************************************************************************)
\* findAnkiDeck returns: back in its caller
DeckReturn(fl, action) ==
    LET f1 == [fl EXCEPT !.deckAction = action]
    IN CASE fl.op = "cmdSyncCurrentNote" -> SyncEnter(f1, fl.file)
         [] fl.op = "cmdSyncNotesByTag" -> BulkEnter(f1)
         [] OTHER -> Return(f1, "undefined")

DeckEnter(fl, deckName, createIfNotFound) ==
    Issue([fl EXCEPT !.deckName = deckName,
               !.createIfNotFound = createIfNotFound], "deckNames")

\* mutant: an absent deck is created whatever createIfNotFound is
DeckOnNames_AlwaysCreate(fl, existingDecks) ==
    IF fl.deckName \notin existingDecks
    THEN Issue(fl, "createDeck")
    ELSE DeckReturn(fl, "unchanged")

\* the catch of findAnkiDeck: what is logged for the error of a failed
\* createDeck; the function returns undefined either way
DeckCaught(fl, message) ==
    IF message = "deck name conflicts with existing model"
    THEN DeckReturn(Failed(fl), "conflict")
    ELSE DeckReturn(Failed(fl), "error")

\* deckNames answered
DeckOnNames(fl, existingDecks) ==
    IF fl.deckName \notin existingDecks
    THEN IF ~fl.createIfNotFound
         THEN DeckReturn(fl, "skipped")
         ELSE Issue(fl, "createDeck")
    ELSE DeckReturn(fl, "unchanged")

(***************************************************************************)
(* ensureAnkiNoteTypeModel                                                 *)
(***************************************************************************)
\* mutant: only the lengths are compared
areFieldArraysEqual_LengthOnly(arr1, arr2) == Len(arr1) = Len(arr2)

\* mutant: the order of the names is ignored
areFieldArraysEqual_AnyOrder(arr1, arr2) ==
    Len(arr1) = Len(arr2) /\ Range(arr1) = Range(arr2)

areFieldArraysEqual(arr1, arr2) ==
    IF Len(arr1) # Len(arr2) THEN FALSE
    ELSE \A i \in 1..Len(arr1) : arr1[i] = arr2[i]

\* the validation of the settings: TRUE iff no error object is returned
SettingsValid(modelName, fieldNames, ankiGuidField) ==
    /\ ~(Falsy(modelName) \/ Trim(modelName) = "")
    /\ ~(Len(fieldNames) = 0 \/ ~\A i \in 1..Len(fieldNames) :
                                     Trim(fieldNames[i]) # "")
    /\ ~(Falsy(ankiGuidField) \/ Trim(ankiGuidField) = "")
    /\ Includes(fieldNames, ankiGuidField)

\* ensureAnkiNoteTypeModel returns {action}: back in its caller
EnsureReturn(fl, action) ==
    LET f1 == [fl EXCEPT !.ensureAction = action]
    IN IF InCommand(fl)
       THEN DeckEnter(f1, settings.ankiDeckName, TRUE)
       ELSE Return(f1, action)

EnsureEnter(fl) ==
    LET modelName == settings.noteTypeName
        fieldNames == settings.callouts \o settings.propertyNames
        ankiGuidField == settings.ankiGuidField
        f1 == [fl EXCEPT !.modelName = modelName, !.fieldNames = fieldNames,
                  !.ankiGuidField = ankiGuidField]
    IN IF ~SettingsValid(modelName, fieldNames, ankiGuidField)
       THEN EnsureReturn(f1, "error")
       ELSE Issue(f1, "modelNames")

\* the params of the createModel request: the template list holds one
\* template, its front is the ankiGuidField in braces
CreateParams(fl) ==
    [inOrderFields |-> fl.fieldNames, templates |-> 1,
     Front |-> "{{" \o fl.ankiGuidField \o "}}", Back |-> "",
     isCloze |-> FALSE]

\* modelNames answered
EnsureOnNames(fl, modelNames) ==
    LET modelExists == fl.modelName \in modelNames
    IN IF modelExists THEN Issue(fl, "modelFieldNames")
       ELSE Issue([fl EXCEPT !.createParams = CreateParams(fl)], "createModel")

\* processAnkiModel({shouldCreate, logAsNotice}) is called by the settings
\* tab of src/src/settings.ts; its body is in no file of the source tree.
\* It is modelled after the ensure-schema contract: validation, then the
\* list of note types; an absent note type is created only when shouldCreate
\* holds, an existing one is handled as ensureAnkiNoteTypeModel handles it
ProcessSettingsValid(modelName, fieldNames) ==
    /\ ~Falsy(modelName)
    /\ Len(fieldNames) > 0
    /\ \A i \in 1..Len(fieldNames) : Trim(fieldNames[i]) # ""

ProcessEnter(fl, shouldCreate) ==
    LET modelName == settings.noteTypeName
        fieldNames == settings.callouts \o settings.propertyNames
        f1 == [fl EXCEPT !.modelName = modelName, !.fieldNames = fieldNames,
                  !.ankiGuidField = settings.ankiGuidField,
                  !.allowCreate = shouldCreate]
    IN IF ~ProcessSettingsValid(modelName, fieldNames)
       THEN Throw(f1, "ConfigurationError")
       ELSE Issue(f1, "modelNames")

\* mutant: an absent note type is created whatever shouldCreate is
ProcessOnNames_AlwaysCreate(fl, modelNames) == EnsureOnNames(fl, modelNames)

\* modelNames answered to processAnkiModel
ProcessOnNames(fl, modelNames) ==
    IF fl.modelName \notin modelNames /\ ~fl.allowCreate
    THEN Return([fl EXCEPT !.ensureAction = "skipped"], "skipped")
    ELSE EnsureOnNames(fl, modelNames)

\* mutant: the fields are sent whatever the current list is
EnsureOnFields_AlwaysUpdate(fl, currentFields) == Issue(fl, "updateModelFields")

\* modelFieldNames answered
EnsureOnFields(fl, currentFields) ==
    IF ~areFieldArraysEqual(currentFields, fl.fieldNames)
    THEN Issue(fl, "updateModelFields")
    ELSE EnsureReturn(fl, "unchanged")

(***************************************************************************)
(* Steps                                                                   *)
(***************************************************************************)
Snapshot(m, r, d) == [models |-> m, records |-> r, decks |-> d]

NoRun == [run |-> IdleFlow, after |-> Snapshot(<<>>, {}, {})]

\* what is kept of the operation before the last one
Summary(run) ==
    [op |-> run.op, variant |-> run.variant, file |-> run.file,
     result |-> run.result, thrown |-> run.thrown,
     ensureAction |-> run.ensureAction, failed |-> Len(run.failures) > 0,
     failures |-> run.failures]

\* the flow continues as nf and the remote store holds m, r, d; a flow
\* that returned is logged in done (last: the flow as it returned and the
\* store it left; prev: a summary of the one before) and idle again
Continue(f, nf, m, r, d) ==
    /\ models' = m
    /\ records' = r
    /\ decks' = d
    /\ IF nf.pc = "done"
       THEN /\ flow' = [flow EXCEPT ![f] = IdleFlow]
            /\ done' = [prev |-> Summary(done.last.run),
                        last |-> [run |-> nf, after |-> Snapshot(m, r, d)]]
       ELSE /\ flow' = [flow EXCEPT ![f] = nf]
            /\ UNCHANGED done
    /\ UNCHANGED <<settings, vault, probe, tagInput>>

\* a pending request is answered
Resume(f, nf, m, r, d) == Continue(f, nf, m, r, d) /\ UNCHANGED ops

Local(f, nf) == Resume(f, nf, models, records, decks)

Idle(f) == flow[f].pc = "idle"

\* an operation is called and runs up to its first request
Start(f, nf) ==
    /\ Idle(f)
    /\ ops < MaxOps
    /\ ops' = ops + 1
    /\ Continue(f, nf, models, records, decks)

\* operations are called
CallEnsure(f) ==
    Start(f, EnsureEnter(NewFlow("ensureAnkiNoteTypeModel", "p2a")))

\* the refresh button of the note type setting, or any other caller
CallProcessAnkiModel(f, shouldCreate) ==
    Start(f, ProcessEnter(NewFlow("processAnkiModel", "settings"), shouldCreate))

CallFindAnkiDeck(f) ==
    Start(f, DeckEnter(NewFlow("findAnkiDeck", "p2a"),
                          settings.ankiDeckName, settings.createDeckIfNotFound))

CallSyncNoteToAnki(f, variant, file) ==
    Start(f, SyncEnter(NewFlow("syncNoteToAnki", variant), file))

CallSyncNotesByTags(f, variant) ==
    Start(f, BulkEnter(NewFlow("syncNotesByTags", variant)))

\* the commands of revision p2a start with checkAnkiConnect
CommandSyncCurrentNote(f, file) ==
    Start(f, Issue([NewFlow("cmdSyncCurrentNote", "p2a") EXCEPT
                          !.file = file], "version"))

CommandSyncNotesByTag(f) ==
    Start(f, Issue(NewFlow("cmdSyncNotesByTag", "p2a"), "version"))

\* checkAnkiConnect: the version, or the failure, is logged
OnVersion(f) ==
    /\ flow[f].pc = "version"
    /\ \E ok \in BOOLEAN :
         Local(f, EnsureEnter(IF ok THEN Answered(flow[f])
                               ELSE Failed(flow[f])))

OnModelNames(f) ==
    /\ flow[f].pc = "modelNames"
    /\ \E ok \in BOOLEAN :
         IF ok
         THEN Local(f, IF flow[f].op = "processAnkiModel"
                       THEN ProcessOnNames(Answered(flow[f]), DOMAIN models)
                       ELSE EnsureOnNames(Answered(flow[f]), DOMAIN models))
         ELSE Local(f, EnsureReturn(Failed(flow[f]), "error"))

OnModelFieldNames(f) ==
    /\ flow[f].pc = "modelFieldNames"
    /\ \E ok \in BOOLEAN :
         IF ok /\ flow[f].modelName \in DOMAIN models
         THEN Local(f, EnsureOnFields(Answered(flow[f]),
                                      models[flow[f].modelName]))
         ELSE Local(f, EnsureReturn(Failed(flow[f]), "error"))

OnUpdateModelFields(f) ==
    /\ flow[f].pc = "updateModelFields"
    /\ \E ok \in BOOLEAN :
         IF ok
         THEN Resume(f, EnsureReturn(Answered(flow[f]), "updated"),
                     RemoteSetModelFields(flow[f].modelName, flow[f].fieldNames),
                     records, decks)
         ELSE Local(f, EnsureReturn(Failed(flow[f]), "error"))

OnCreateModel(f) ==
    /\ flow[f].pc = "createModel"
    /\ \E ok \in BOOLEAN :
         IF ok
         THEN Resume(f, EnsureReturn(Answered(flow[f]), "created"),
                     RemoteSetModelFields(flow[f].modelName, flow[f].fieldNames),
                     records, decks)
         ELSE Local(f, EnsureReturn(Failed(flow[f]), "error"))

OnDeckNames(f) ==
    /\ flow[f].pc = "deckNames"
    /\ \E ok \in BOOLEAN :
         IF ok THEN Local(f, DeckOnNames(Answered(flow[f]), decks))
         ELSE Local(f, DeckReturn(Failed(flow[f]), "error"))

\* the remote refuses a deck named as a note type with the conflict
\* message, or the request fails otherwise, or the deck is created
OnCreateDeck(f) ==
    /\ flow[f].pc = "createDeck"
    /\ \E outcome \in {"ok", "HTTP error",
                        "deck name conflicts with existing model"} :
         IF outcome = "ok"
         THEN Resume(f, DeckReturn(Answered(flow[f]), "created"),
                     models, records, decks \cup {flow[f].deckName})
         ELSE /\ (outcome = "deck name conflicts with existing model"
                    => flow[f].deckName \in DOMAIN models)
              /\ Local(f, DeckCaught(flow[f], outcome))

OnFindNotes(f) ==
    /\ flow[f].pc = "findNotes"
    /\ \E ok \in BOOLEAN :
         IF ok
         THEN Local(f, LET f1 == SyncOnFound(Answered(flow[f]),
                                    RemoteFindNotes(flow[f].queryDeck,
                                        flow[f].idField, flow[f].guid))
                       IN f1)
         ELSE Local(f, LET f1 == SyncCaught(flow[f])
                       IN SyncReturn(f1))

OnUpdateNoteFields(f) ==
    /\ flow[f].pc = "updateNoteFields"
    /\ \E ok \in BOOLEAN :
         IF ok
         THEN Resume(f, SyncReturn(SyncOnWritten(Answered(flow[f]), FALSE)), models,
                     RemoteUpdateNoteFields(flow[f].ankiNoteId, flow[f].ankiFields),
                     decks)
         ELSE Local(f, SyncReturn(SyncCaught(flow[f])))

OnAddNote(f) ==
    /\ flow[f].pc = "addNote"
    /\ \E ok \in BOOLEAN :
         IF ok
         THEN Resume(f, SyncReturn(SyncOnWritten(Answered(flow[f]), TRUE)), models,
                     RemoteAddNote(flow[f].queryDeck, flow[f].modelName,
                                   flow[f].ankiFields,
                                   NoteTags(vault[flow[f].file])),
                     decks)
         ELSE Local(f, SyncReturn(SyncCaught(flow[f])))

(***************************************************************************)
(* The settings tab                                                        *)
(***************************************************************************)
\* the onChange handler of a text setting: the key is assigned at once,
\* whatever operation is in progress (saveSettings follows)
ChangeText(key, value) ==
    /\ settings[key] # value
    /\ settings' = [settings EXCEPT ![key] = value]
    /\ UNCHANGED <<vault, decks, models, records, flow, done, ops, probe,
                   tagInput>>

\* the setter of createSettingAccessor: the key is assigned at once
Setter(key, updatedValue) == [settings EXCEPT ![key] = updatedValue]

\* a list setting is replaced through its accessor
ChangeList(key, updatedValue) ==
    /\ settings[key] # updatedValue
    /\ settings' = Setter(key, updatedValue)
    /\ UNCHANGED <<vault, decks, models, records, flow, done, ops, probe,
                   tagInput>>

(***************************************************************************)
(* The tag input control of the settings tab (addTagInputSetting)          *)
(*   tagInput.key          the setting the accessor of the control reads   *)
(*   tagInput.chips        the tagText of the pills before the input, in   *)
(*                         the order of the container                      *)
(*   tagInput.textContent  the text of the input                           *)
(***************************************************************************)
\* the getter of createSettingAccessor
Getter(key) == settings[key]

\* "getTags().filter(tag => tag !== tagText)"
FilterOut(tags, tagText) == SelectSeq(tags, LAMBDA tag : tag # tagText)

\* a sequence without its element at index i
RemoveAt(seq, i) == SubSeq(seq, 1, i - 1) \o SubSeq(seq, i + 1, Len(seq))

\* the control after a handler: the list handed to setTags, the pills,
\* the text of the input
Control(tags, chips, textContent) ==
    [tags |-> tags, chips |-> chips, textContent |-> textContent]

\* mutant: the new tag is added without looking for it in the list
KeydownEnter_AlwaysAdd(currentTags, chips, textContent) ==
    LET newTag == Trim(textContent)
    IN IF newTag # ""
       THEN Control(Append(currentTags, newTag), Append(chips, newTag), "")
       ELSE Control(currentTags, chips, textContent)

\* keydown with key Enter
KeydownEnter(currentTags, chips, textContent) ==
    LET newTag == Trim(textContent)
    IN IF newTag # ""
       THEN IF ~Includes(currentTags, newTag)
            THEN Control(Append(currentTags, newTag), Append(chips, newTag), "")
            ELSE Control(currentTags, chips, "")
       ELSE Control(currentTags, chips, textContent)

\* keydown with key Backspace: the pill before the input goes with the
\* last tag of the list; with text in the input the handler returns
KeydownBackspace(currentTags, chips, textContent) ==
    IF Len(currentTags) = 0 \/ textContent # ""
    THEN Control(currentTags, chips, textContent)
    ELSE IF Len(chips) > 0
         THEN Control(SubSeq(currentTags, 1, Len(currentTags) - 1),
                      SubSeq(chips, 1, Len(chips) - 1), textContent)
         ELSE Control(currentTags, chips, textContent)

\* click on the remove button of the pill at index i
ClickRemove(currentTags, chips, textContent, i) ==
    Control(FilterOut(currentTags, chips[i]), RemoveAt(chips, i), textContent)

\* a handler of the control has run: setTags assigns the setting
Handled(c) ==
    /\ settings' = Setter(tagInput.key, c.tags)
    /\ tagInput' = [tagInput EXCEPT !.chips = c.chips,
                                    !.textContent = c.textContent]
    /\ UNCHANGED <<vault, decks, models, records, flow, done, ops, probe>>

Displayed == tagInput.key # "-"

\* addTagInputSetting: a pill for every tag of the setting
DisplayTagInput(key) ==
    /\ ~Displayed
    /\ tagInput' = [key |-> key, chips |-> Getter(key), textContent |-> ""]
    /\ UNCHANGED <<settings, vault, decks, models, records, flow, done, ops,
                   probe>>

\* the user edits the text of the input
TypeText(text) ==
    /\ Displayed
    /\ tagInput.textContent # text
    /\ tagInput' = [tagInput EXCEPT !.textContent = text]
    /\ UNCHANGED <<settings, vault, decks, models, records, flow, done, ops,
                   probe>>

PressEnter ==
    /\ Displayed
    /\ Trim(tagInput.textContent) # ""
    /\ Handled(KeydownEnter(Getter(tagInput.key), tagInput.chips,
                            tagInput.textContent))

PressBackspace ==
    /\ Displayed
    /\ Len(Getter(tagInput.key)) > 0
    /\ tagInput.textContent = ""
    /\ Handled(KeydownBackspace(Getter(tagInput.key), tagInput.chips,
                                tagInput.textContent))

ClickRemoveButton(i) ==
    /\ Displayed
    /\ i \in 1..Len(tagInput.chips)
    /\ Handled(ClickRemove(Getter(tagInput.key), tagInput.chips,
                           tagInput.textContent, i))

(***************************************************************************)
(* Initial states                                                          *)
(***************************************************************************)
\* DEFAULT_SETTINGS, with two of its four property names; ankiGuidField
\* is no key of it (a data file of an earlier revision may hold one);
\* defaultDeck and fieldMappings are keys of the settings of main.ts
BaseSettings ==
    [ankiDeckName |-> "Obsidian articles", defaultDeck |-> "Obsidian articles",
     createDeckIfNotFound |-> TRUE,
     noteTypeName |-> "obsidian-articles",
     obsidianGuidProperty |-> "citation key", ankiGuidField |-> UNDEF,
     propertyNames |-> <<"title", "authors">>, callouts |-> <<"summary">>,
     fieldMappings |-> <<[obsProp |-> "title", ankiField |-> "Title"],
                         [obsProp |-> "authors", ankiField |-> "Authors"]>>,
     tagsToInclude |-> <<>>, tagsToExclude |-> <<>>]

NoTags == [kind |-> "undefined", items |-> <<>>]

\* the frontmatter properties and the text of the notes, where a claim
\* does not vary them: the callout of the note is rendered when read
NoteProps ==
    [title |-> FmString("Paper X"), authors |-> FmArray(<<"A", "B">>)]

NoteText == Text(<<"> [!summary]", "> x", "x">>, TRUE)

Note(guid, inlineTags, fmTags) ==
    [guid |-> guid, inlineTags |-> inlineTags, fmTags |-> fmTags,
     props |-> NoteProps, content |-> NoteText, rendered |-> TRUE]

ArrayTags(items) == [kind |-> "array", items |-> items]

StringTags(s) == [kind |-> "string", items |-> <<s>>]

\* two of the three notes hold an identity, one does not; tags vary
VaultTagged ==
    [n1 |-> Note("g1", <<"#A">>, NoTags),
     n2 |-> Note(UNDEF, <<>>, ArrayTags(<<"a">>)),
     n3 |-> Note("g2", <<>>, NoTags)]

\* a note with a blank identity, two notes with the same identity
VaultShared ==
    [n1 |-> Note("g1", <<>>, ArrayTags(<<"B">>)),
     n2 |-> Note(NULL, <<"#a">>, NoTags),
     n3 |-> Note("g1", <<"#b">>, ArrayTags(<<"a">>))]

\* "tags: a" in the frontmatter of n3: a string, not a list
VaultScalarTags ==
    [n1 |-> Note("g1", <<"#a">>, NoTags),
     n2 |-> Note("g2", <<>>, NoTags),
     n3 |-> Note("g1", <<>>, StringTags("a"))]

Record(id, deckName, idField, guid) ==
    [id |-> id, deckName |-> deckName, modelName |-> "obsidian-articles",
     fields |-> [NoFields EXCEPT ![idField] = guid],
     tags |-> ArrayTags(<<>>)]

\* what a filter loop or a projection run on its own has produced
NoProbe == [variant |-> "-", filesToSync |-> <<>>, file |-> "-",
            fields |-> NoFields, label |-> "-", callout |-> "-"]

\* no tag input control is displayed
NoTagInput == [key |-> "-", chips |-> <<>>, textContent |-> ""]

InitLocal ==
    /\ flow = [f \in FlowIds |-> IdleFlow]
    /\ done = [prev |-> Summary(IdleFlow), last |-> NoRun]
    /\ ops = 0
    /\ probe = NoProbe
    /\ tagInput = NoTagInput

\* the whole plugin
Init ==
    /\ settings \in {[BaseSettings EXCEPT !.ankiGuidField = g,
                                          !.createDeckIfNotFound = c,
                                          !.tagsToExclude = e] :
                        g \in {"GUID", "title"}, c \in BOOLEAN,
                        e \in {<<"B">>}}
    /\ vault \in {VaultTagged, VaultScalarTags}
    /\ decks \in {{}, {"Obsidian articles"}}
    /\ models \in {<<>>, [m \in {"obsidian-articles"} |-> <<"title", "summary">>]}
    /\ records = {}
    /\ InitLocal

Next ==
    \E f \in Sequential :
        \/ CallEnsure(f)
        \/ \E shouldCreate \in BOOLEAN : CallProcessAnkiModel(f, shouldCreate)
        \/ CallFindAnkiDeck(f)
        \/ \E variant \in Variants, file \in Files :
               CallSyncNoteToAnki(f, variant, file)
        \/ \E variant \in Variants : CallSyncNotesByTags(f, variant)
        \/ \E file \in Files : CommandSyncCurrentNote(f, file)
        \/ CommandSyncNotesByTag(f)
        \/ OnVersion(f)
        \/ OnModelNames(f)
        \/ OnModelFieldNames(f)
        \/ OnUpdateModelFields(f)
        \/ OnCreateModel(f)
        \/ OnDeckNames(f)
        \/ OnCreateDeck(f)
        \/ OnFindNotes(f)
        \/ OnUpdateNoteFields(f)
        \/ OnAddNote(f)
        \/ \E value \in {"Obsidian articles", "Other deck"} :
               ChangeText("ankiDeckName", value)
        \/ \E value \in {<<"title", "authors">>, <<"title">>} :
               ChangeList("propertyNames", value)
        \/ \E key \in {"tagsToInclude", "tagsToExclude"} : DisplayTagInput(key)
        \/ \E text \in {"", "a", " a ", "B"} : TypeText(text)
        \/ PressEnter
        \/ PressBackspace
        \/ \E i \in 1..(MaxTags + 2) : ClickRemoveButton(i)

Spec == Init /\ [][Next]_vars

(***************************************************************************)
(* ensureAnkiNoteTypeModel on its own: every starting field list           *)
(***************************************************************************)
SchemaFieldUniverse == {"summary", "title", "authors", "extra"}

InitSchema ==
    /\ settings \in {[BaseSettings EXCEPT !.noteTypeName = n, !.callouts = c,
                                          !.propertyNames = p,
                                          !.ankiGuidField = g] :
                        n \in {"obsidian-articles", ""},
                        c \in {<<>>, <<"summary">>},
                        p \in {<<>>, <<"title">>, <<"title", "authors">>,
                               <<"title", " ">>},
                        g \in {UNDEF, "title", "summary", "GUID"}}
    /\ vault = VaultTagged
    /\ decks = {}
    /\ models \in {<<>>} \cup
                  {[m \in {"obsidian-articles"} |-> fields] :
                       fields \in InjSeqs(SchemaFieldUniverse, MaxFields) \ {<<>>}}
    /\ records = {}
    /\ InitLocal

NextSchema ==
    \E f \in Sequential :
        \/ CallEnsure(f)
        \/ \E shouldCreate \in BOOLEAN : CallProcessAnkiModel(f, shouldCreate)
        \/ OnModelNames(f)
        \/ OnModelFieldNames(f)
        \/ OnUpdateModelFields(f)
        \/ OnCreateModel(f)

SpecSchema == InitSchema /\ [][NextSchema]_vars

(***************************************************************************)
(* syncNoteToAnki on its own, in the three revisions                       *)
(***************************************************************************)
InitSync ==
    /\ settings = [BaseSettings EXCEPT !.ankiGuidField = "GUID"]
    /\ vault \in {VaultTagged, VaultShared}
    /\ decks = {"Obsidian articles"}
    /\ models = [m \in {"obsidian-articles"} |->
                    <<"citation key", "GUID", "summary", "title", "authors">>]
    /\ records \in
         {{},
          {Record(1, "Obsidian articles", "citation key", "g1")},
          {Record(1, "Other deck", "citation key", "g1"),
           Record(2, "Obsidian articles", "citation key", "g1"),
           Record(3, "Obsidian articles", "citation key", "g1")}}
    /\ InitLocal

NextSync ==
    \E f \in Sequential :
        \/ \E variant \in Variants, file \in Files :
               CallSyncNoteToAnki(f, variant, file)
        \/ OnFindNotes(f)
        \/ OnUpdateNoteFields(f)
        \/ OnAddNote(f)

SpecSync == InitSync /\ [][NextSync]_vars

(***************************************************************************)
(* syncNotesByTags on its own, in the three revisions                      *)
(***************************************************************************)
InitBulk ==
    /\ settings \in {[BaseSettings EXCEPT !.ankiGuidField = "GUID",
                                          !.tagsToInclude = i,
                                          !.tagsToExclude = e] :
                        i \in {<<>>, <<"A">>}, e \in {<<>>, <<"B">>}}
    /\ vault \in {VaultTagged, VaultShared, VaultScalarTags}
    /\ decks = {"Obsidian articles"}
    /\ models = [m \in {"obsidian-articles"} |->
                    <<"citation key", "GUID", "summary", "title", "authors">>]
    /\ records \in {{}, {Record(1, "Obsidian articles", "citation key", "g1")}}
    /\ InitLocal

NextBulk ==
    \E f \in Sequential :
        \/ \E variant \in Variants : CallSyncNotesByTags(f, variant)
        \/ OnFindNotes(f)
        \/ OnUpdateNoteFields(f)
        \/ OnAddNote(f)

SpecBulk == InitBulk /\ [][NextBulk]_vars

(***************************************************************************)
(* The tag filter on its own: every tag list of the bounded universe       *)
(***************************************************************************)
TagUniverse == {"a", "b", "A"}

InlineTagUniverse == {"#a", "#B"}

InitFilter ==
    /\ settings \in {[BaseSettings EXCEPT !.tagsToInclude = i,
                                          !.tagsToExclude = e] :
                        i \in SeqsUpTo(TagUniverse, MaxTags),
                        e \in SeqsUpTo(TagUniverse, MaxTags)}
    /\ vault \in {[n1 |-> Note("g1", inl, fm),
                   n2 |-> Note("g2", <<>>, NoTags),
                   n3 |-> Note(UNDEF, <<"#B">>, ArrayTags(<<"A">>))] :
                     inl \in SeqsUpTo(InlineTagUniverse, 1),
                     fm \in {NoTags} \cup
                            {ArrayTags(t) : t \in SeqsUpTo(TagUniverse, MaxTags)}}
    /\ decks = {}
    /\ models = <<>>
    /\ records = {}
    /\ InitLocal

\* the filter loop of a revision runs over the vault
ApplyFilter(variant) ==
    /\ probe' = [NoProbe EXCEPT !.variant = variant,
                     !.filesToSync = FilterFiles(variant).filesToSync]
    /\ UNCHANGED <<settings, vault, decks, models, records, flow, done, ops,
                   tagInput>>

NextFilter == \E variant \in Variants : ApplyFilter(variant)

SpecFilter == InitFilter /\ [][NextFilter]_vars

(***************************************************************************)
(* findAnkiDeck on its own: the button of the settings tab                 *)
(***************************************************************************)
InitDeck ==
    /\ settings \in {[BaseSettings EXCEPT !.ankiGuidField = "GUID",
                                          !.ankiDeckName = n,
                                          !.createDeckIfNotFound = c] :
                        n \in {"Obsidian articles", "obsidian-articles"},
                        c \in BOOLEAN}
    /\ vault = VaultTagged
    /\ decks \in SUBSET {"Obsidian articles", "obsidian-articles", "Default"}
    /\ models \in {<<>>, [m \in {"obsidian-articles"} |-> <<"title", "summary">>]}
    /\ records = {}
    /\ InitLocal

NextDeck ==
    \E f \in Sequential :
        \/ CallFindAnkiDeck(f)
        \/ OnDeckNames(f)
        \/ OnCreateDeck(f)

SpecDeck == InitDeck /\ [][NextDeck]_vars

(***************************************************************************)
(* The two commands of revision p2a, with valid and invalid settings       *)
(***************************************************************************)
InitCommand ==
    /\ settings \in {[BaseSettings EXCEPT !.noteTypeName = n,
                                          !.propertyNames = p,
                                          !.ankiGuidField = g,
                                          !.createDeckIfNotFound = c] :
                        n \in {"obsidian-articles", ""},
                        p \in {<<"title", "authors">>, <<"title", " ">>},
                        g \in {"title"}, c \in BOOLEAN}
    /\ vault = VaultTagged
    /\ decks \in {{}, {"Obsidian articles"}}
    /\ models \in {<<>>,
                   [m \in {"obsidian-articles"} |-> <<"title", "summary">>],
                   [m \in {"obsidian-articles"} |-> <<"summary", "title", "authors">>]}
    /\ records = {Record(1, "Obsidian articles", "citation key", "g1")}
    /\ InitLocal

NextCommand ==
    \E f \in Sequential :
        \/ \E file \in Files : CommandSyncCurrentNote(f, file)
        \/ CommandSyncNotesByTag(f)
        \/ OnVersion(f)
        \/ OnModelNames(f)
        \/ OnModelFieldNames(f)
        \/ OnUpdateModelFields(f)
        \/ OnCreateModel(f)
        \/ OnDeckNames(f)
        \/ OnCreateDeck(f)
        \/ OnFindNotes(f)
        \/ OnUpdateNoteFields(f)
        \/ OnAddNote(f)

SpecCommand == InitCommand /\ [][NextCommand]_vars

(***************************************************************************)
(* The field projection on its own: every value of the two properties      *)
(***************************************************************************)
PropValues ==
    {FmAbsent, FmString(""), FmString("Paper X"), FmNumber(0), FmNumber(7),
     FmBoolean(FALSE), FmBoolean(TRUE),
     FmArray(<<>>), FmArray(<<"A">>), FmArray(<<"A", "B">>)}

InitProject ==
    /\ settings \in {[BaseSettings EXCEPT !.ankiGuidField = "GUID",
                                          !.callouts = c] :
                        c \in {<<>>, <<"summary">>}}
    /\ vault \in {[n1 |-> [Note("abc123", <<>>, NoTags) EXCEPT
                              !.props = [title |-> t, authors |-> a]],
                   n2 |-> Note(UNDEF, <<>>, NoTags),
                   n3 |-> Note("g2", <<>>, NoTags)] :
                     t \in PropValues, a \in PropValues}
    /\ decks = {}
    /\ models = <<>>
    /\ records = {}
    /\ InitLocal

\* the field projection of a revision runs on a note
ApplyProject(variant, file) ==
    /\ probe' = [NoProbe EXCEPT !.variant = variant, !.file = file,
                     !.fields = AnkiFields(variant, vault[file])]
    /\ UNCHANGED <<settings, vault, decks, models, records, flow, done, ops,
                   tagInput>>

NextProject ==
    \E variant \in Variants, file \in Files : ApplyProject(variant, file)

SpecProject == InitProject /\ [][NextProject]_vars

(***************************************************************************)
(* The callout extractor on its own: every text of the bounded universe    *)
(***************************************************************************)
LineUniverse ==
    {"> [!summary]", "> [!SUMMARY] Key points", "> [!note]", "> x", ">y", ">", "x"}

\* extractSummaryCallout of src/unnamed/part_001, extractCallout of the others
Extractors == {"p1"} \cup Variants

InitExtract ==
    /\ settings = [BaseSettings EXCEPT !.ankiGuidField = "GUID"]
    /\ vault \in {[n1 |-> [Note("g1", <<>>, NoTags) EXCEPT
                              !.content = Text(lines, nl), !.rendered = r],
                   n2 |-> Note(UNDEF, <<>>, NoTags),
                   n3 |-> Note("g2", <<>>, NoTags)] :
                     lines \in SeqsUpTo(LineUniverse, MaxLines),
                     nl \in BOOLEAN, r \in BOOLEAN}
    /\ decks = {}
    /\ models = <<>>
    /\ records = {}
    /\ InitLocal

\* the extractor of a revision runs on the text of a note
ApplyExtract(variant, file, label) ==
    /\ probe' = [NoProbe EXCEPT !.variant = variant, !.file = file,
                     !.label = label,
                     !.callout =
                         IF variant = "p1"
                         THEN extractSummaryCallout(vault[file].content, label)
                         ELSE extractCallout(vault[file].content, label,
                                             vault[file].rendered)]
    /\ UNCHANGED <<settings, vault, decks, models, records, flow, done, ops,
                   tagInput>>

NextExtract ==
    \E variant \in Extractors, file \in Files, label \in {"summary", "Summary"} :
        ApplyExtract(variant, file, label)

SpecExtract == InitExtract /\ [][NextExtract]_vars

(***************************************************************************)
(* One sync operation of revision p2a while the settings tab is in use     *)
(***************************************************************************)
InitSettings ==
    /\ settings = [BaseSettings EXCEPT !.ankiGuidField = "GUID"]
    /\ vault = VaultTagged
    /\ decks = {"Obsidian articles", "Other deck"}
    /\ models = [m \in {"obsidian-articles"} |->
                    <<"citation key", "summary", "title", "authors">>]
    /\ records \in {{}, {Record(1, "Obsidian articles", "citation key", "g1")}}
    /\ flow = [f \in FlowIds |-> IdleFlow]
    /\ done = [prev |-> Summary(IdleFlow), last |-> NoRun]
    /\ ops = MaxOps - 1
    /\ probe = NoProbe
    /\ tagInput = NoTagInput

NextSettings ==
    \/ \E f \in Sequential :
           \/ \E file \in Files : CallSyncNoteToAnki(f, "p2a", file)
           \/ CallSyncNotesByTags(f, "p2a")
           \/ OnFindNotes(f)
           \/ OnUpdateNoteFields(f)
           \/ OnAddNote(f)
    \/ \E value \in {"Obsidian articles", "Other deck"} :
           ChangeText("ankiDeckName", value)
    \/ \E value \in {"obsidian-articles", "Basic"} :
           ChangeText("noteTypeName", value)
    \/ \E value \in {<<"title", "authors">>, <<"title">>} :
           ChangeList("propertyNames", value)

SpecSettings == InitSettings /\ [][NextSettings]_vars

(***************************************************************************)
(* syncNoteToAnki and syncNotesByTags of revision p2a, one after another,  *)
(* on a remote store that holds what earlier runs left                     *)
(***************************************************************************)
InitStore ==
    /\ settings \in {[BaseSettings EXCEPT !.ankiGuidField = "GUID",
                                          !.tagsToExclude = e] :
                        e \in {<<>>, <<"B">>}}
    /\ vault \in {VaultTagged, VaultShared}
    /\ decks = {"Obsidian articles", "Other deck"}
    /\ models = [m \in {"obsidian-articles"} |->
                    <<"citation key", "summary", "title", "authors">>]
    /\ records \in {{},
                    {Record(1, "Obsidian articles", "citation key", "g1")},
                    {Record(1, "Other deck", "citation key", "g1")}}
    /\ InitLocal

NextStore ==
    \E f \in Sequential :
        \/ \E file \in Files : CallSyncNoteToAnki(f, "p2a", file)
        \/ CallSyncNotesByTags(f, "p2a")
        \/ OnFindNotes(f)
        \/ OnUpdateNoteFields(f)
        \/ OnAddNote(f)

SpecStore == InitStore /\ [][NextStore]_vars

(***************************************************************************)
(* Two commands of revision p2a in progress at once: the flow of the       *)
(* sync-current-note command is not awaited by its caller                  *)
(***************************************************************************)
InitOverlap ==
    /\ settings = [BaseSettings EXCEPT !.ankiGuidField = "title"]
    /\ vault = VaultTagged
    /\ decks = {"Obsidian articles"}
    /\ models = [m \in {"obsidian-articles"} |-> <<"summary", "title", "authors">>]
    /\ records = {}
    /\ InitLocal

NextOverlap ==
    \E f \in FlowIds :
        \/ \E file \in Files : CommandSyncCurrentNote(f, file)
        \/ CommandSyncNotesByTag(f)
        \/ OnVersion(f)
        \/ OnModelNames(f)
        \/ OnModelFieldNames(f)
        \/ OnDeckNames(f)
        \/ OnFindNotes(f)
        \/ OnUpdateNoteFields(f)
        \/ OnAddNote(f)

SpecOverlap == InitOverlap /\ [][NextOverlap]_vars

(***************************************************************************)
(* The tag input control on its own: every stored list without repetition  *)
(* and without an empty entry                                              *)
(***************************************************************************)
InputUniverse == {"", " ", "a", " a ", "b", "A"}

TagInputKeys == {"tagsToInclude", "callouts"}

InitTagInput ==
    /\ settings \in {[BaseSettings EXCEPT !.tagsToInclude = t, !.callouts = t] :
                        t \in InjSeqs(TagUniverse, MaxTags)}
    /\ vault = VaultTagged
    /\ decks = {}
    /\ models = <<>>
    /\ records = {}
    /\ InitLocal

NextTagInput ==
    \/ \E key \in TagInputKeys : DisplayTagInput(key)
    \/ \E text \in InputUniverse : TypeText(text)
    \/ PressEnter
    \/ PressBackspace
    \/ \E i \in 1..(MaxTags + 2) : ClickRemoveButton(i)

SpecTagInput == InitTagInput /\ [][NextTagInput]_vars

(***************************************************************************)
(* Properties                                                              *)
(***************************************************************************)
LastRun == done.last.run

LastAfter == done.last.after

NoIdentity(file) == Falsy(vault[file].guid)

\* C1: syncNoteToAnki on a note without a value under the GUID key throws
\* the ReferenceError and sends no request (no findNotes, addNote or
\* updateNoteFields), in revision p2a and in main.ts
C1_NoIdentityNoCalls ==
    /\ \A f \in FlowIds :
           (/\ flow[f].op = "syncNoteToAnki"
            /\ flow[f].variant \in {"p2a", "main"}
            /\ NoIdentity(flow[f].file))
           => flow[f].calls = <<>>
    /\ (/\ LastRun.op = "syncNoteToAnki"
        /\ LastRun.variant \in {"p2a", "main"}
        /\ NoIdentity(LastRun.file))
       => (LastRun.thrown = "ReferenceError" /\ LastRun.calls = <<>>)

\* a direct syncNoteToAnki call of revision p2a on a note with an identity
\* has returned and none of its requests failed
SyncedP2a(run) ==
    /\ run.op = "syncNoteToAnki"
    /\ run.variant = "p2a"
    /\ ~NoIdentity(run.file)
    /\ run.failures = <<>>

\* C2: for a note with an identity, when findNotes returns no id the call
\* sends exactly one addNote (no updateNoteFields) and returns true
\* (created); when it returns ids the call sends exactly one
\* updateNoteFields, on the first id, (no addNote) and returns false
\* (updated); the call after a successful call on the same note returns
\* false (updated)
C2_CreateOrUpdate ==
    SyncedP2a(LastRun) =>
        /\ LastRun.found = <<>> =>
              /\ LastRun.calls = <<"findNotes", "addNote">>
              /\ LastRun.result = "true"
              /\ \E r \in LastAfter.records :
                    /\ r.deckName = settings.ankiDeckName
                    /\ r.fields[settings.obsidianGuidProperty] = LastRun.guid
        /\ LastRun.found # <<>> =>
              /\ LastRun.calls = <<"findNotes", "updateNoteFields">>
              /\ LastRun.ankiNoteId = LastRun.found[1]
              /\ LastRun.result = "false"
        /\ (/\ done.prev.op = "syncNoteToAnki"
            /\ done.prev.variant = "p2a"
            /\ done.prev.file = LastRun.file
            /\ done.prev.result \in {"true", "false"})
           => LastRun.result = "false"

\* a note was created by one call and updated by the next call on it
C2_Witness ==
    /\ SyncedP2a(LastRun)
    /\ done.prev.op = "syncNoteToAnki"
    /\ done.prev.variant = "p2a"
    /\ done.prev.file = LastRun.file
    /\ done.prev.result = "true"
    /\ LastRun.result = "false"
    /\ LastRun.calls = <<"findNotes", "updateNoteFields">>

CountIn(seq, S) == Cardinality({i \in 1..Len(seq) : seq[i] \in S})

\* a direct syncNotesByTags call has run its sync loop to the end
BulkLogged(run, variants) ==
    /\ run.op = "syncNotesByTags"
    /\ run.variant \in variants
    /\ run.result = "logged"

WriteCalls == {"addNote", "updateNoteFields"}

\* C3: in syncNotesByTags (revision p2a) every filtered note whose sync
\* failed on a request counts once in failCounter and in neither
\* createCounter nor updateCounter, and the loop goes on to the last note
C3_FailureCounted ==
    BulkLogged(LastRun, {"p2a"}) =>
        /\ LastRun.failCounter = Len(LastRun.failures)
        /\ LastRun.createCounter + LastRun.updateCounter =
              CountIn(LastRun.calls, WriteCalls)
                  - CountIn(LastRun.failures, WriteCalls)
        /\ LastRun.idx = Len(LastRun.filesToSync) + 1

WithIdentity(files) == {i \in 1..Len(files) : ~NoIdentity(files[i])}

\* C4: in syncNotesByTags (revisions p2a and p2b) a filtered note without
\* an identity adds to no counter and sends no request, and the notes after
\* it are still processed: the counters add up to the filtered notes that
\* hold an identity
C4_NoIdentitySkipped ==
    BulkLogged(LastRun, {"p2a", "p2b"}) =>
        /\ LastRun.createCounter + LastRun.updateCounter
              + LastRun.failCounter + LastRun.syncCounter
             = Cardinality(WithIdentity(LastRun.filesToSync))
        /\ CountIn(LastRun.calls, {"findNotes"})
             = Cardinality(WithIdentity(LastRun.filesToSync))
        /\ LastRun.idx = Len(LastRun.filesToSync) + 1

\* C5: syncNotesByTags (revision p2a) never rejects, whatever the tag
\* metadata of the notes and whichever requests fail
C5_NeverRaises ==
    (LastRun.op = "syncNotesByTags" /\ LastRun.variant = "p2a")
        => LastRun.thrown = "-"

\* the selection rule of the tag filter, on lowercased tags
RefShouldSync(noteTags, inc, exc) ==
    IF Len(noteTags) = 0 /\ Len(inc) > 0 THEN FALSE
    ELSE IF Some(noteTags, exc) THEN FALSE
    ELSE IF Len(inc) = 0 THEN TRUE
    ELSE Some(noteTags, inc)

FileTags(file) == getTagsFromFile(vault[file]).tags

\* C6: the files the filter loop selects (syncNotesByTags of p2a, the
\* sync-notes-by-tag callback of main.ts) are the files the selection
\* rule selects, for all tag lists of the note and of the settings
C6_FilterEqualsReference ==
    probe.variant \in {"p2a", "main"} =>
        \A file \in Files :
            Includes(probe.filesToSync, file)
                <=> RefShouldSync(FileTags(file), includeTags, excludeTags)

\* C7: a note without tags is selected whenever tagsToInclude is empty,
\* also when tagsToExclude is not (p2a and main.ts)
C7_UntaggedSelected ==
    probe.variant \in {"p2a", "main"} =>
        \A file \in Files :
            (Len(FileTags(file)) = 0 /\ Len(includeTags) = 0)
                => Includes(probe.filesToSync, file)

\* a direct ensureAnkiNoteTypeModel call has returned {success: true}
Ensured(run) ==
    /\ run.op = "ensureAnkiNoteTypeModel"
    /\ run.ensureAction \in {"created", "updated", "unchanged"}

ModelExisted(run) == run.modelName \in DOMAIN run.beforeModels

MutatingCalls == {"createModel", "updateModelFields", "modelFieldAdd",
                  "modelFieldRemove", "modelFieldReposition"}

\* C8: after ensureAnkiNoteTypeModel succeeded on an existing note type
\* the remote field list is the desired list (callouts, then property
\* names), same names in the same order, whatever the list was before
C8_FieldsConverge ==
    (Ensured(LastRun) /\ ModelExisted(LastRun)) =>
        /\ LastRun.modelName \in DOMAIN LastAfter.models
        /\ LastAfter.models[LastRun.modelName] = LastRun.fieldNames
        /\ LastRun.fieldNames = settings.callouts \o settings.propertyNames

\* the note type held the desired fields in another order and was updated
C8_Witness ==
    /\ Ensured(LastRun)
    /\ ModelExisted(LastRun)
    /\ LastRun.ensureAction = "updated"
    /\ LastRun.beforeModels[LastRun.modelName] # LastRun.fieldNames
    /\ Range(LastRun.beforeModels[LastRun.modelName]) = Range(LastRun.fieldNames)
    /\ Len(LastRun.fieldNames) = 3

\* C9: a successful ensureAnkiNoteTypeModel reports created, updated or
\* unchanged, and the call right after it, with the same settings and its
\* requests answered, reports unchanged and leaves the remote note types as
\* the first call left them
C9_Idempotent ==
    (/\ done.prev.op = "ensureAnkiNoteTypeModel"
     /\ done.prev.ensureAction \in {"created", "updated", "unchanged"}
     /\ LastRun.op = "ensureAnkiNoteTypeModel"
     /\ LastRun.failures = <<>>)
    => /\ LastRun.ensureAction = "unchanged"
       /\ LastAfter.models = LastRun.beforeModels
       /\ CountIn(LastRun.calls, MutatingCalls) = 0

\* a call that updated the fields is followed by a call that reports unchanged
C9_Witness ==
    /\ done.prev.op = "ensureAnkiNoteTypeModel"
    /\ done.prev.ensureAction = "updated"
    /\ LastRun.op = "ensureAnkiNoteTypeModel"
    /\ LastRun.ensureAction = "unchanged"

\* C10: when the note type exists with a field list element-wise identical
\* to the desired list, ensureAnkiNoteTypeModel (valid settings, requests
\* answered) reports unchanged and sends no mutating request; it reports
\* unchanged in that case only
C10_UnchangedIffIdentical ==
    LastRun.op = "ensureAnkiNoteTypeModel" =>
        /\ (/\ ModelExisted(LastRun)
            /\ LastRun.beforeModels[LastRun.modelName] = LastRun.fieldNames
            /\ SettingsValid(LastRun.modelName, LastRun.fieldNames,
                             LastRun.ankiGuidField)
            /\ LastRun.failures = <<>>)
           => (/\ LastRun.ensureAction = "unchanged"
               /\ CountIn(LastRun.calls, MutatingCalls) = 0
               /\ LastAfter.models = LastRun.beforeModels)
        /\ LastRun.ensureAction = "unchanged"
           => (/\ ModelExisted(LastRun)
               /\ LastRun.beforeModels[LastRun.modelName] = LastRun.fieldNames
               /\ CountIn(LastRun.calls, MutatingCalls) = 0)

\* the first call finds the note type with the desired fields
C10_Witness ==
    /\ LastRun.op = "ensureAnkiNoteTypeModel"
    /\ done.prev.op = "idle"
    /\ LastRun.ensureAction = "unchanged"
    /\ LastRun.calls = <<"modelNames", "modelFieldNames">>
    /\ Len(LastRun.fieldNames) = 3

\* the projection of a property value: the elements joined with ", ", the
\* stringified scalar, the empty string for a missing key
RefProject(v) ==
    CASE v.kind = "array" -> Join(v.items, ", ")
      [] v.kind = "absent" -> ""
      [] OTHER -> StringOf(v)

\* C18: the field projection of syncNoteToAnki (revision p2a) gives every
\* configured property the elements joined with ", " for a list, the
\* stringified value for a present scalar (0 and false included) and the
\* empty string for a missing key, and gives the identity field the raw
\* identity value
C18_Projection ==
    (probe.variant = "p2a" /\ probe.file # "-") =>
        /\ \A i \in 1..Len(settings.propertyNames) :
               probe.fields[settings.propertyNames[i]] =
                   RefProject(Frontmatter(vault[probe.file],
                                          settings.propertyNames[i]))
        /\ probe.fields[settings.obsidianGuidProperty] = vault[probe.file].guid

\* the indexes of the opener lines of the label in the text: the opener
\* ends with a line break
OpenerLines(content, label) ==
    {i \in 1..Len(content.lines) :
        /\ OpenerLabel(content.lines[i]) = LabelLower(label)
        /\ HasBreak(content, i)}

\* the first opener line of the label is followed by no quoted line
NoContinuation(content, label) ==
    /\ OpenerLines(content, label) # {}
    /\ LET i == CHOOSE k \in OpenerLines(content, label) :
                    \A j \in OpenerLines(content, label) : k <= j
       IN ~(i < Len(content.lines) /\ IsQuoted(content.lines[i + 1]))

\* C19: on a text with an opener line of the label and no quoted line after
\* it the extractor (extractSummaryCallout, extractCallout of p2a) returns
\* the empty string; it returns null only when the text has no opener line
\* of the label
C19_EmptyCalloutNotAbsent ==
    (probe.variant \in {"p1", "p2a"} /\ probe.label # "-") =>
        LET content == vault[probe.file].content
        IN /\ NoContinuation(content, probe.label) => probe.callout = ""
           /\ probe.callout = NULL => OpenerLines(content, probe.label) = {}

\* a direct processAnkiModel call has ended and found no note type of the name
ProcessedAbsent(run) ==
    /\ run.op = "processAnkiModel"
    /\ run.calls # <<>>
    /\ "modelNames" \notin Range(run.failures)
    /\ ~ModelExisted(run)

C12_CreateRequest ==
    (/\ LastRun.op = "ensureAnkiNoteTypeModel"
     /\ LastRun.calls # <<>>
     /\ ~ModelExisted(LastRun)
     /\ LastRun.failures = <<>>)
    => /\ LastRun.ensureAction = "created"
       /\ CountIn(LastRun.calls, {"createModel"}) = 1
       /\ LastRun.createParams.inOrderFields = LastRun.fieldNames
       /\ LastRun.createParams.templates = 1
       /\ LastRun.createParams.Front = "{{" \o LastRun.fieldNames[1] \o "}}"
       /\ LastRun.createParams.Back = ""

\* C13: the field list ensureAnkiNoteTypeModel reconciles (the settings
\* passed its validation) starts with the identity field
C13_IdentityFieldFirst ==
    (LastRun.op = "ensureAnkiNoteTypeModel" /\ LastRun.calls # <<>>) =>
        /\ Len(LastRun.fieldNames) > 0
        /\ LastRun.fieldNames[1] = LastRun.ankiGuidField

\* C17: syncNoteToAnki (revision p2a) returns true only after its addNote
\* succeeded, false only after its updateNoteFields succeeded, and rejects
\* when its findNotes, addNote or updateNoteFields request failed
C17_FailurePropagates ==
    (LastRun.op = "syncNoteToAnki" /\ LastRun.variant = "p2a") =>
        /\ LastRun.result = "true" =>
               (/\ Includes(LastRun.calls, "addNote")
                /\ ~Includes(LastRun.failures, "addNote"))
        /\ LastRun.result = "false" =>
               (/\ Includes(LastRun.calls, "updateNoteFields")
                /\ ~Includes(LastRun.failures, "updateNoteFields"))
        /\ LastRun.failures # <<>> => LastRun.thrown # "-"

\* the settings are invalid as the ensure-schema contract has it: a blank
\* note type name, an empty field list or a blank field name
InvalidConfiguration ==
    LET fieldNames == settings.callouts \o settings.propertyNames
    IN \/ Trim(settings.noteTypeName) = ""
       \/ Len(fieldNames) = 0
       \/ \E i \in 1..Len(fieldNames) : Trim(fieldNames[i]) = ""

\* C14: with invalid settings ensureAnkiNoteTypeModel sends no request and
\* the command that called it (revision p2a) sends none after it: no
\* deckNames, createDeck, findNotes, addNote or updateNoteFields; the only
\* request of the command is the version check made before
C14_InvalidConfigurationAborts ==
    InvalidConfiguration =>
        /\ \A f \in FlowIds :
               InCommand(flow[f]) => Range(flow[f].calls) \subseteq {"version"}
        /\ InCommand(LastRun) => Range(LastRun.calls) \subseteq {"version"}

\* a direct findAnkiDeck call has ended and its deckNames was answered
DeckListed(run) ==
    /\ run.op = "findAnkiDeck"
    /\ ~Includes(run.failures, "deckNames")

\* C15: findAnkiDeck lists the decks first; when the deck exists it sends
\* no createDeck; when it is absent and createIfNotFound holds it sends
\* exactly one createDeck, which adds the deck when it succeeds; when it is
\* absent and createIfNotFound does not hold it sends no createDeck
C15_DeckCreatedWhenAllowed ==
    DeckListed(LastRun) =>
        /\ LastRun.deckName \in LastRun.beforeDecks =>
               /\ LastRun.calls = <<"deckNames">>
               /\ LastRun.deckAction = "unchanged"
               /\ LastAfter.decks = LastRun.beforeDecks
        /\ (LastRun.deckName \notin LastRun.beforeDecks /\ LastRun.createIfNotFound) =>
               /\ LastRun.calls = <<"deckNames", "createDeck">>
               /\ LastRun.failures = <<>> =>
                      /\ LastRun.deckAction = "created"
                      /\ LastAfter.decks = LastRun.beforeDecks \cup {LastRun.deckName}
        /\ (LastRun.deckName \notin LastRun.beforeDecks /\ ~LastRun.createIfNotFound) =>
               /\ LastRun.calls = <<"deckNames">>
               /\ LastRun.deckAction = "skipped"
               /\ LastAfter.decks = LastRun.beforeDecks

\* an absent deck was created by the one createDeck of the call
C15_Witness ==
    /\ DeckListed(LastRun)
    /\ LastRun.deckName \notin LastRun.beforeDecks
    /\ LastRun.createIfNotFound
    /\ LastRun.calls = <<"deckNames", "createDeck">>
    /\ LastRun.deckAction = "created"
    /\ LastRun.deckName \in LastAfter.decks

\* C16: when createDeck fails with the conflict of the deck name with a
\* note type name, what findAnkiDeck hands to its caller differs from what
\* it hands on success (the value undefined, no error thrown)
C16_ConflictReported ==
    (LastRun.op = "findAnkiDeck" /\ LastRun.deckAction = "conflict") =>
        ~(LastRun.result = "undefined" /\ LastRun.thrown = "-")

\* C20: when a command of revision p2a sends addNote, its
\* ensureAnkiNoteTypeModel step has succeeded and the note type exists
\* remotely with the desired fields
C20_CreateAfterSchemaEnsured ==
    \A f \in FlowIds :
        (InCommand(flow[f]) /\ flow[f].pc = "addNote") =>
            /\ flow[f].ensureAction \in {"created", "updated", "unchanged"}
            /\ settings.noteTypeName \in DOMAIN models
            /\ Range(models[settings.noteTypeName])
                  = Range(settings.callouts \o settings.propertyNames)

\* the requests of the log that are outstanding after its first n entries
Outstanding(events, n) ==
    Cardinality({i \in 1..n : events[i].kind = "sent"})
        - Cardinality({i \in 1..n : events[i].kind # "sent"})

\* the index of a file in a list of files without repetition, 0 if absent
IndexOf(files, file) ==
    IF Includes(files, file) THEN CHOOSE i \in 1..Len(files) : files[i] = file
    ELSE 0

\* the requests of a bulk run are made note after note: at most one is
\* outstanding, and a request of a note is sent after every request of the
\* notes before it in filesToSync
OneNoteAtATime(run) ==
    /\ \A n \in 1..Len(run.events) : Outstanding(run.events, n) <= 1
    /\ \A i, j \in 1..Len(run.events) :
           i < j => IndexOf(run.filesToSync, run.events[i].file)
                       <= IndexOf(run.filesToSync, run.events[j].file)
    /\ \A i \in 1..Len(run.events) :
           IndexOf(run.filesToSync, run.events[i].file) # 0

\* C21: syncNotesByTags (revision p2a) syncs the filtered notes one after
\* another: the requests of a note are sent only after the last request of
\* the note before it was answered or failed, and the run never has the
\* requests of two notes outstanding
C21_BulkSequential ==
    /\ \A f \in FlowIds :
           (flow[f].op = "syncNotesByTags" /\ flow[f].variant = "p2a")
               => OneNoteAtATime(flow[f])
    /\ (LastRun.op = "syncNotesByTags" /\ LastRun.variant = "p2a")
           => OneNoteAtATime(LastRun)

\* a bulk run has ended after the round trips of two notes, the second
\* begun after the write of the first was answered
C21_Witness ==
    /\ BulkLogged(LastRun, {"p2a"})
    /\ Len(LastRun.filesToSync) >= 2
    /\ \E i \in 1..Len(LastRun.events) - 1 :
           /\ LastRun.events[i].kind = "answered"
           /\ LastRun.events[i].action \in WriteCalls
           /\ LastRun.events[i + 1].kind = "sent"
           /\ LastRun.events[i + 1].file # LastRun.events[i].file

\* C22: when an ensureAnkiNoteTypeModel call failed on its createModel or
\* updateModelFields request, whatever field list the note type is left
\* with, the next call with the same settings that succeeds leaves the
\* remote field list equal to the desired list
C22_ConvergesAfterFailure ==
    (/\ done.prev.op = "ensureAnkiNoteTypeModel"
     /\ Range(done.prev.failures) \cap MutatingCalls # {}
     /\ Ensured(LastRun))
    => /\ LastRun.modelName \in DOMAIN LastAfter.models
       /\ LastAfter.models[LastRun.modelName] = LastRun.fieldNames
       /\ LastRun.fieldNames = settings.callouts \o settings.propertyNames

\* the update of a note type with other fields failed, the next call
\* updated it
C22_Witness ==
    /\ done.prev.op = "ensureAnkiNoteTypeModel"
    /\ done.prev.failures = <<"updateModelFields">>
    /\ Ensured(LastRun)
    /\ LastRun.ensureAction = "updated"
    /\ LastRun.beforeModels[LastRun.modelName] # LastRun.fieldNames
    /\ LastAfter.models[LastRun.modelName] = LastRun.fieldNames

\* the names of the fields a field map sets
KeySet(fields) == {n \in FieldNameUniverse : fields[n] # UNDEF}

\* the requests of a sync operation of revision p2a are those of the
\* settings as they were when the operation was called
UsesStartSettings(fl) ==
    LET start == fl.startSettings
    IN /\ fl.pc \in {"findNotes", "addNote"} =>
              fl.queryDeck = start.ankiDeckName
       /\ fl.pc = "addNote" => fl.modelName = start.noteTypeName
       /\ fl.pc = "findNotes" =>
              /\ fl.idField = start.obsidianGuidProperty
              /\ KeySet(fl.ankiFields) =
                     {start.obsidianGuidProperty} \cup Range(start.callouts)
                         \cup Range(start.propertyNames)

\* C23: the queries and the create parameters of a running syncNoteToAnki
\* or syncNotesByTags (revision p2a) are those of the settings as they were
\* when the operation started, also when a setting is changed meanwhile
C23_SettingsSnapshot ==
    \A f \in FlowIds :
        (flow[f].op \in {"syncNoteToAnki", "syncNotesByTags"}
            /\ flow[f].variant = "p2a")
        => UsesStartSettings(flow[f])

\* the records of the configured deck that hold the identity value
RecordsOf(guid) ==
    {r \in records :
        /\ r.deckName = settings.ankiDeckName
        /\ r.fields[settings.obsidianGuidProperty] = guid}

IdentityValues == {"g1", "g2"}

\* C24: when syncNoteToAnki and syncNotesByTags (revision p2a) run one
\* after another under fixed settings, the configured deck holds at most
\* one record per identity value, and addNote is sent for an identity only
\* when findNotes found no record and the deck holds none for it
C24_OneRecordPerIdentity ==
    /\ \A guid \in IdentityValues : Cardinality(RecordsOf(guid)) <= 1
    /\ \A f \in FlowIds :
           flow[f].pc = "addNote" =>
               (flow[f].found = <<>> /\ RecordsOf(flow[f].guid) = {})

\* a bulk run created the record of an identity for one note and updated
\* it for another note with the same identity
C24_Witness ==
    /\ BulkLogged(LastRun, {"p2a"})
    /\ LastRun.failures = <<>>
    /\ LastRun.createCounter = 1
    /\ LastRun.updateCounter >= 1
    /\ Cardinality(RecordsOf("g1")) = 1
    /\ CountIn(LastRun.calls, {"findNotes"}) >= 2
    /\ vault["n1"].guid = vault["n3"].guid

\* the identity values a flow has sent addNote for
CreatesFor(fl) ==
    {vault[fl.events[i].file].guid : i \in
        {k \in 1..Len(fl.events) : /\ fl.events[k].action = "addNote"
                                   /\ fl.events[k].kind = "sent"}}

\* C25: two commands of revision p2a that are in progress at once never
\* both send addNote for the same identity value
C25_NoDoubleCreate ==
    \A f, g \in FlowIds :
        (f # g /\ ~Idle(f) /\ ~Idle(g))
            => CreatesFor(flow[f]) \cap CreatesFor(flow[g]) = {}

\* the entries of the request log of a run for a request and an outcome
EventsOf(run, actions, kind) ==
    {i \in 1..Len(run.events) :
        run.events[i].action \in actions /\ run.events[i].kind = kind}

\* the sync loop has taken the note once: a note without an identity is
\* skipped without a request, for any other note one findNotes is sent
VisitedOnce(run, file) ==
    IF NoIdentity(file)
    THEN /\ Cardinality({i \in 1..Len(run.skipped) : run.skipped[i] = file}) = 1
         /\ \A i \in 1..Len(run.events) : run.events[i].file # file
    ELSE Cardinality({i \in EventsOf(run, {"findNotes"}, "sent") :
                         run.events[i].file = file}) = 1

\* C26: a syncNotesByTags run (revision p2a) that has ended took every
\* filtered note exactly once; createCounter, updateCounter, failCounter
\* and the notes skipped for a missing identity add up to the filtered
\* notes; createCounter is the number of addNote requests that succeeded
\* and updateCounter the number of updateNoteFields requests that succeeded
C26_CountersAddUp ==
    BulkLogged(LastRun, {"p2a"}) =>
        /\ LastRun.idx = Len(LastRun.filesToSync) + 1
        /\ \A i \in 1..Len(LastRun.filesToSync) :
               VisitedOnce(LastRun, LastRun.filesToSync[i])
        /\ LastRun.createCounter + LastRun.updateCounter + LastRun.failCounter
              + Len(LastRun.skipped) = Len(LastRun.filesToSync)
        /\ LastRun.createCounter
              = Cardinality(EventsOf(LastRun, {"addNote"}, "answered"))
        /\ LastRun.updateCounter
              = Cardinality(EventsOf(LastRun, {"updateNoteFields"}, "answered"))

\* C27: when a command of revision p2a, whose ensureAnkiNoteTypeModel step
\* succeeded, sends addNote or updateNoteFields, every field name of the
\* field map it sends is a name of the field list the step ensured, which
\* is the field list of the remote note type
C27_FieldsInSchema ==
    \A f \in FlowIds :
        (/\ InCommand(flow[f])
         /\ flow[f].pc \in WriteCalls
         /\ flow[f].ensureAction \in {"created", "updated", "unchanged"})
        => /\ KeySet(flow[f].ankiFields) \subseteq Range(flow[f].fieldNames)
           /\ settings.noteTypeName \in DOMAIN models
           /\ KeySet(flow[f].ankiFields)
                  \subseteq Range(models[settings.noteTypeName])

\* C28: when createDeckIfNotFound is false and the deck of the settings
\* does not exist remotely, the commands of revision p2a send no createDeck
C28_NoCreateDeckWhenOff ==
    \A f \in FlowIds :
        (/\ InCommand(flow[f])
         /\ ~settings.createDeckIfNotFound
         /\ settings.ankiDeckName \notin flow[f].beforeDecks)
        => ~Includes(flow[f].calls, "createDeck")

\* C29: in a tag input control (addTagInputSetting of customSettingsTab.ts
\* and of ankiRequests.ts) opened on a stored list without repetition and
\* without an empty entry, after any sequence of Enter, Backspace and
\* remove-button events the stored list has no repetition and no empty
\* entry, and the pills are the stored list, element for element
C29_ChipsMatchStore ==
    Displayed =>
        /\ NoDup(Getter(tagInput.key))
        /\ ~Includes(Getter(tagInput.key), "")
        /\ tagInput.chips = Getter(tagInput.key)

\* a tag was added with Enter to a list that was cut before with the
\* remove button or Backspace
C29_Witness ==
    /\ Displayed
    /\ Len(tagInput.chips) = 2
    /\ tagInput.chips[2] = "a"
    /\ tagInput.chips = Getter(tagInput.key)
    /\ tagInput.textContent = ""
    /\ Getter("tagsToInclude") # Getter("callouts")
    /\ \E k \in TagInputKeys : Getter(k) = <<"a", "b">>

\* the text has a callout of the label whose body holds text
HasBody(content, label) ==
    /\ MatchIndex(content, label) # 0
    /\ TrimLines(StripAll(GroupLines(content, MatchIndex(content, label))))
           # <<>>

\* C30: for a callout with a body, extractCallout (revision p2a and
\* main.ts) returns the HTML of the rendered body: the container is read
\* after the render has filled it, never while it is still empty
C30_RenderedBeforeRead ==
    (probe.variant \in {"p2a", "main"} /\ probe.label # "-") =>
        LET content == vault[probe.file].content
        IN HasBody(content, probe.label) =>
               /\ probe.callout # ""
               /\ probe.callout =
                      InnerHTML(GroupLines(content,
                                    MatchIndex(content, probe.label)), TRUE)

====
